---- MODULE Spec2Model ----
(***************************************************************************)
(* A model of src/my_agent.py: the WordleAgent class (dictionary, candidate *)
(* list dictionary_backup, cached opener index, internal guess counter,    *)
(* the class-wide run_once flag) driven by an external game that starts    *)
(* games, accepts guesses and rejects guesses.                              *)
(*                                                                          *)
(* Words are tuples of one-letter strings.  The scores of the Word Scorer   *)
(* are Python floats: they are computed here with the roundings of IEEE-754 *)
(* double arithmetic, because two words whose scores are equal as real      *)
(* numbers can get floats that differ.                                      *)
(***************************************************************************)
EXTENDS Integers, Sequences, FiniteSets, TLC

VARIABLES
  dictionary,          \* self.dictionary
  dictionary_backup,   \* self.dictionary_backup (the Candidate Set, a list)
  word_length,         \* self.word_length
  num_guesses,         \* self.num_guesses
  mode,                \* self.mode
  first_guess_index,   \* self.first_guess_index (0-based)
  last_guess_counter,  \* self.last_guess_counter
  has_run,             \* wrapper.has_run of run_once(get_first_guess): one per process
  percepts,            \* the percepts of the last AgentFunction call
  result,              \* what the last call did: [kind, word, path]
  call,                \* the candidate list before the last call and after its reducer
  solution,            \* the game's hidden word
  truthful,            \* every feedback of this game was the true feedback for solution
  rejected,            \* the last call re-presented a turn whose guess the game rejected
  nagents,             \* agents constructed so far in this process
  runs,                \* executions of the body of get_first_guess so far
  opener,              \* the word this agent's first turn-0 call returned
  guesses              \* what the calls of the current game returned, in order

vars == <<dictionary, dictionary_backup, word_length, num_guesses, mode,
          first_guess_index, last_guess_counter, has_run, percepts, result,
          call, solution, truthful, rejected, nagents, runs, opener, guesses>>

agentVars == <<dictionary, word_length, num_guesses, mode>>

----------------------------------------------------------------------------
(* Bounds of the model *)

\* the maximum turn count handed to the constructor
NumGuesses == 4
\* calls of AgentFunction the game makes after a turn-0 call (accepted and rejected)
MaxCalls == 4
\* agents constructed in one process
MaxAgents == 2

----------------------------------------------------------------------------
(* Constructor inputs *)

\* the alphabet handed to the constructor (self.letters)
letters == <<"A", "B", "C", "E", "I", "L", "N", "R", "S", "T">>

CRANE == <<"C", "R", "A", "N", "E">>
SLATE == <<"S", "L", "A", "T", "E">>
TRAIN == <<"T", "R", "A", "I", "N">>
BAT == <<"B", "A", "T">>
CAT == <<"C", "A", "T">>
TAT == <<"T", "A", "T">>
EAT == <<"E", "A", "T">>
RAT == <<"R", "A", "T">>
TAC == <<"T", "A", "C">>
TAB == <<"T", "A", "B">>
ABA == <<"A", "B", "A">>
ACB == <<"A", "C", "B">>
ACC == <<"A", "C", "C">>
BCE == <<"B", "C", "E">>
BEC == <<"B", "E", "C">>
BTA == <<"B", "T", "A">>
ARB == <<"A", "R", "B">>
NIL == <<"N", "I", "L">>
NIS == <<"N", "I", "S">>
NSL == <<"N", "S", "L">>
BBT == <<"B", "B", "T">>
BTT == <<"B", "T", "T">>
BCT == <<"B", "C", "T">>
CCT == <<"C", "C", "T">>

\* the word lists handed to the constructor
Dictionaries ==
  { <<CRANE, SLATE, TRAIN>>,
    <<BAT, TAT, CAT, EAT, RAT, TAB, TAC>>,
    <<ABA, CAT, ACB, ACC, CAT>>,
    <<NIL, NIS, NSL, BAT, BCE, BEC, BTA, ARB>>,
    <<ABA, BBT, BTT, BCT, CCT, BAT>> }

Modes == {"easy", "hard"}

\* feedback states: 0 absent, -1 present-misplaced, 1 correct
States == {0 - 1, 0, 1}

NoWord == <<>>

Range(s) == {s[i] : i \in 1..Len(s)}

----------------------------------------------------------------------------
(* Python list and numpy primitives *)

\* list.count(x)
Count(s, x) == Cardinality({i \in 1..Len(s) : s[i] = x})

\* x in list
In(x, s) == \E i \in 1..Len(s) : s[i] = x

\* list.remove(x): drops the first occurrence of x (the code only removes words
\* it has just read from a copy of the list, so x occurs)
Remove(s, x) ==
  LET k == CHOOSE i \in 1..Len(s) : s[i] = x /\ \A j \in 1..(i - 1) : s[j] # x
  IN  [i \in 1..(Len(s) - 1) |-> IF i < k THEN s[i] ELSE s[i + 1]]

\* np.argmax(scores): the 0-based index of the first maximum (scores not empty)
ArgMax(scores) ==
  (CHOOSE i \in 1..Len(scores) :
     /\ \A j \in 1..Len(scores) : scores[j] <= scores[i]
     /\ \A j \in 1..(i - 1) : scores[j] < scores[i]) - 1

\* helper.letter_indices_to_word(letter_indexes, letters): 0-based indexes
letter_indices_to_word(letter_indexes, alphabet) ==
  [i \in 1..Len(letter_indexes) |-> alphabet[letter_indexes[i] + 1]]

----------------------------------------------------------------------------
(* Python floats: IEEE-754 binary64, every operation rounded to nearest,    *)
(* ties to even.  A float x (0, or 2^-26 <= x < 2^13) is kept exactly, as   *)
(* the natural number x * 2^78 written in base 2^13 in 7 limbs, the least   *)
(* significant limb first.                                                  *)

Base == 2 ^ 13

\* bit k of the natural number a (bit 0 is the least significant)
Bit(a, k) ==
  IF k \div 13 < Len(a) THEN (a[(k \div 13) + 1] \div (2 ^ (k % 13))) % 2 ELSE 0

\* the number of significant bits of a
BitLen(a) ==
  IF \A i \in 1..Len(a) : a[i] = 0 THEN 0
  ELSE LET t == CHOOSE i \in 1..Len(a) :
                  a[i] # 0 /\ \A j \in (i + 1)..Len(a) : a[j] = 0
           b == CHOOSE n \in 1..13 : 2 ^ (n - 1) <= a[t] /\ a[t] < 2 ^ n
       IN  13 * (t - 1) + b

\* carries (and borrows) taken through limbs that left the range 0..Base-1
RECURSIVE Carry(_, _, _)
Carry(a, i, c) ==
  IF i > Len(a) THEN <<>>
  ELSE <<(a[i] + c) % Base>> \o Carry(a, i + 1, (a[i] + c) \div Base)

\* exact a + b of naturals of the same length
BigAdd(a, b) == Carry([i \in 1..Len(a) |-> a[i] + b[i]], 1, 0)

\* exact a - b of naturals of the same length, a >= b
BigSub(a, b) == Carry([i \in 1..Len(a) |-> a[i] - b[i]], 1, 0)

RECURSIVE Column(_, _, _, _)
Column(a, b, k, i) ==
  IF i > Len(a) THEN 0
  ELSE (IF k + 1 - i \in 1..Len(b) THEN a[i] * b[k + 1 - i] ELSE 0)
       + Column(a, b, k, i + 1)

\* exact a * b, in Len(a) + Len(b) limbs
BigMul(a, b) == Carry([k \in 1..(Len(a) + Len(b)) |-> Column(a, b, k, 1)], 1, 0)

\* long division of a by the small number d, from the most significant limb
RECURSIVE DivLimbs(_, _, _, _)
DivLimbs(a, d, i, r) ==
  IF i = 0 THEN [q |-> <<>>, r |-> r]
  ELSE LET cur  == r * Base + a[i]
           rest == DivLimbs(a, d, i - 1, cur % d)
       IN  [q |-> Append(rest.q, cur \div d), r |-> rest.r]

\* a with its s lowest bits rounded away, to nearest, ties to even
RoundAt(a, s) ==
  LET low(i) == s - 13 * (i - 1)
      half   == Bit(a, s - 1) = 1
      sticky == \E i \in 1..Len(a) :
                  a[i] % (2 ^ (IF low(i) - 1 < 0 THEN 0
                               ELSE IF low(i) - 1 > 13 THEN 13 ELSE low(i) - 1)) # 0
      odd    == Bit(a, s) = 1
      up     == half /\ (sticky \/ odd)
  IN  Carry([i \in 1..Len(a) |->
               (IF low(i) >= 13 THEN 0
                ELSE IF low(i) <= 0 THEN a[i]
                ELSE (a[i] \div (2 ^ low(i))) * (2 ^ low(i)))
               + (IF up /\ i = (s \div 13) + 1 THEN 2 ^ (s % 13) ELSE 0)], 1, 0)

\* a rounded to 53 significant bits
RoundToDouble(a) == IF BitLen(a) <= 53 THEN a ELSE RoundAt(a, BitLen(a) - 53)

\* the float of the integer x (0 <= x < Base)
FloatOfInt(x) == <<0, 0, 0, 0, 0, 0, x>>

\* a quotient with a remainder: the remainder is folded into the lowest bit
FoldRemainder(d) ==
  IF d.r # 0 /\ d.q[1] % 2 = 0 THEN [d.q EXCEPT ![1] = @ + 1] ELSE d.q

\* x / y of two ints (true division), also the float of the decimal literal x/y:
\* the quotient correctly rounded
FloatTrueDiv(x, y) == RoundToDouble(FoldRemainder(DivLimbs(FloatOfInt(x), y, 7, 0)))

\* x + y of floats
FloatAdd(x, y) == RoundToDouble(BigAdd(x, y))

\* x - y of floats, x >= y
FloatSub(x, y) == RoundToDouble(BigSub(x, y))

\* x * y of floats
FloatMul(x, y) == SubSeq(RoundToDouble(BigMul(x, y)), 7, 13)

\* x < y of floats
FloatLess(x, y) ==
  \E i \in 1..7 : x[i] < y[i] /\ \A j \in (i + 1)..7 : x[j] = y[j]

\* np.argmax(scores) of a list of floats: the 0-based index of the first maximum
ArgMaxFloat(scores) ==
  (CHOOSE i \in 1..Len(scores) :
     /\ \A j \in 1..Len(scores) : ~FloatLess(scores[i], scores[j])
     /\ \A j \in 1..(i - 1) : FloatLess(scores[j], scores[i])) - 1

----------------------------------------------------------------------------
(* Word Scorer: probability, entropy, score, calculate_scores *)

\* freq of probability(char, pos): candidates with char at pos
Freq(cands, char, pos) == Cardinality({i \in 1..Len(cands) : cands[i][pos] = char})

\* probability: prob = freq / len(self.dictionary_backup)
Prob(freq, n) == FloatTrueDiv(freq, n)

\* entropy: e = p * (1 - p), for p = Prob(freq, n)
Entropy(freq, n) == FloatMul(Prob(freq, n), FloatSub(FloatOfInt(1), Prob(freq, n)))

\* the longest word list the constructor gets
MaxWords == CHOOSE n \in 0..100 :
              /\ \E d \in Dictionaries : Len(d) = n
              /\ \A d \in Dictionaries : Len(d) <= n

\* Entropy(freq, n) for every list length n and every freq in 1..n, tabulated
EntropyTable ==
  <<>> \o [n \in 1..MaxWords |-> <<>> \o [freq \in 1..n |-> Entropy(freq, n)]]

\* entropy(char, pos), for a char that some candidate has at pos
entropy(cands, char, pos) == EntropyTable[Len(cands)][Freq(cands, char, pos)]

\* the loop of score: s = 0, then s += entropy(word[i], i) for each position
RECURSIVE SumEntropy(_, _, _)
SumEntropy(cands, word, i) ==
  IF i = 0 THEN FloatOfInt(0)
  ELSE FloatAdd(SumEntropy(cands, word, i - 1), entropy(cands, word[i], i))

\* double_letter of score: some letter of the word occurs in it more than once
HasDouble(word) == \E i \in 1..Len(word) : Count(word, word[i]) > 1

\* the float of the literal 0.9
PointNine == FloatTrueDiv(9, 10)

\* score(word): s *= 0.9 for a word with a double letter
score(cands, word) ==
  IF HasDouble(word)
    THEN FloatMul(SumEntropy(cands, word, Len(word)), PointNine)
    ELSE SumEntropy(cands, word, Len(word))

\* calculate_scores(): the scores of the words of dictionary_backup, in order
calculate_scores(cands) == <<>> \o [i \in 1..Len(cands) |-> score(cands, cands[i])]

----------------------------------------------------------------------------
(* Candidate Reducer: reduce_guesses *)

\* a slip in the correct branch: it only asks that the word contain the letter
RemovesAtGreenAnywhere(word, in_english, letter_states, i) ==
  IF letter_states[i] = 0
    THEN /\ In(in_english[i], word)
         /\ IF Count(in_english, in_english[i]) = 1
              THEN TRUE
              ELSE in_english[i] = word[i]
  ELSE IF letter_states[i] = 1
    THEN ~In(in_english[i], word)
  ELSE IF letter_states[i] = 0 - 1
    THEN ~In(in_english[i], word) \/ in_english[i] = word[i]
  ELSE FALSE

\* a slip in the absent branch: the count of the letter in the guess is not
\* looked at, a word is removed only for the letter at that very position
RemovesAtGreySamePosition(word, in_english, letter_states, i) ==
  IF letter_states[i] = 0
    THEN In(in_english[i], word) /\ in_english[i] = word[i]
  ELSE IF letter_states[i] = 1
    THEN in_english[i] # word[i]
  ELSE IF letter_states[i] = 0 - 1
    THEN ~In(in_english[i], word) \/ in_english[i] = word[i]
  ELSE FALSE

\* a slip in the absent branch: the count of the letter in the guess is not
\* looked at, every word that contains the letter is removed
RemovesAtGreyAnywhere(word, in_english, letter_states, i) ==
  IF letter_states[i] = 0
    THEN In(in_english[i], word)
  ELSE IF letter_states[i] = 1
    THEN in_english[i] # word[i]
  ELSE IF letter_states[i] = 0 - 1
    THEN ~In(in_english[i], word) \/ in_english[i] = word[i]
  ELSE FALSE

\* a slip in the present-misplaced branch: a word that has the letter at that very
\* position is not removed
RemovesAtYellowSamePosition(word, in_english, letter_states, i) ==
  IF letter_states[i] = 0
    THEN /\ In(in_english[i], word)
         /\ IF Count(in_english, in_english[i]) = 1
              THEN TRUE
              ELSE in_english[i] = word[i]
  ELSE IF letter_states[i] = 1
    THEN in_english[i] # word[i]
  ELSE IF letter_states[i] = 0 - 1
    THEN ~In(in_english[i], word)
  ELSE FALSE

\* the test of position i of the inner loop: TRUE when the word is removed there
RemovesAt(word, in_english, letter_states, i) ==
  IF letter_states[i] = 0
    THEN /\ In(in_english[i], word)
         /\ IF Count(in_english, in_english[i]) = 1
              THEN TRUE
              ELSE in_english[i] = word[i]
  ELSE IF letter_states[i] = 1
    THEN in_english[i] # word[i]
  ELSE IF letter_states[i] = 0 - 1
    THEN ~In(in_english[i], word) \/ in_english[i] = word[i]
  ELSE FALSE

\* the inner loop over the positions of one word, left to right, from i on:
\* it stops (break) at the first position that removes the word
RECURSIVE RemovesFrom(_, _, _, _)
RemovesFrom(word, in_english, letter_states, i) ==
  IF i > Len(word) THEN FALSE
  ELSE IF RemovesAt(word, in_english, letter_states, i) THEN TRUE
  ELSE RemovesFrom(word, in_english, letter_states, i + 1)

\* a slip in reduce_guesses: the loop runs over the live list it removes from, so
\* the word that follows a removed word moves into its place and is skipped
RECURSIVE ReduceLoopOverLive(_, _, _, _, _)
ReduceLoopOverLive(live, dict_copy, in_english, letter_states, j) ==
  IF j > Len(live) THEN live
  ELSE ReduceLoopOverLive(
         IF RemovesFrom(live[j], in_english, letter_states, 1)
           THEN Remove(live, live[j]) ELSE live,
         dict_copy, in_english, letter_states, j + 1)

\* the outer loop over dict_copy from index j on, removing from the live list
RECURSIVE ReduceLoop(_, _, _, _, _)
ReduceLoop(live, dict_copy, in_english, letter_states, j) ==
  IF j > Len(dict_copy) THEN live
  ELSE ReduceLoop(
         IF RemovesFrom(dict_copy[j], in_english, letter_states, 1)
           THEN Remove(live, dict_copy[j]) ELSE live,
         dict_copy, in_english, letter_states, j + 1)

\* a slip in reduce_guesses: the full dictionary is reduced, not the candidate list
reduce_guesses_of_dictionary(cands, p) ==
  ReduceLoop(dictionary, dictionary,
             letter_indices_to_word(p.letter_indexes, letters), p.letter_states, 1)

\* a slip in reduce_guesses: nothing is removed
reduce_guesses_keeps_all(cands, p) == cands

\* reduce_guesses(percepts): the new dictionary_backup
reduce_guesses(cands, p) ==
  ReduceLoop(cands, cands, letter_indices_to_word(p.letter_indexes, letters),
             p.letter_states, 1)

----------------------------------------------------------------------------
(* Stuck-position heuristic: green_counter, smart_guess *)

\* green_counter(percepts): letter_states.count(1)
green_counter(p) == Count(p.letter_states, 1)

\* letter_states.index(0) raises ValueError when no state is 0
HasGrey(p) == In(0, p.letter_states)

\* grey_pos = letter_states.index(0), 1-based here
grey_pos(p) ==
  CHOOSE i \in 1..Len(p.letter_states) :
    p.letter_states[i] = 0 /\ \A j \in 1..(i - 1) : p.letter_states[j] # 0

\* possible_letters: the letter at grey_pos of every candidate
possible_letters(cands, p) == [i \in 1..Len(cands) |-> cands[i][grey_pos(p)]]

\* the loop over the chars of one dictionary word up to char k: the count of chars
\* found in possible_letters, and double_letter, which the loop sets to False at
\* every char before it tests that char
RECURSIVE SmartLoop(_, _, _)
SmartLoop(word, possible, k) ==
  IF k = 0 THEN [s |-> 0, double_letter |-> FALSE]
  ELSE LET before == SmartLoop(word, possible, k - 1)
       IN  IF In(word[k], possible)
             THEN [s |-> before.s + 1, double_letter |-> Count(word, word[k]) > 1]
             ELSE [s |-> before.s, double_letter |-> FALSE]

\* scores[i] of smart_guess, times 10: scores[i] *= 0.1 when double_letter is set
SmartScore(word, possible) ==
  LET r == SmartLoop(word, possible, Len(word))
  IN  IF r.double_letter THEN r.s ELSE 10 * r.s

\* smart_guess(percepts): the first best-scoring word of the full dictionary
smart_guess(dict, cands, p) ==
  LET possible == possible_letters(cands, p)
      scores == [i \in 1..Len(dict) |-> SmartScore(dict[i], possible)]
  IN  dict[ArgMax(scores) + 1]

----------------------------------------------------------------------------
(* Guess Controller: AgentFunction *)

\* a slip in run_once: the has_run test is lost and the body runs at every call
get_first_guess_every_call(ran, cached, cands) == ArgMaxFloat(calculate_scores(cands))

\* run_once(get_first_guess): the body runs only while wrapper.has_run is False;
\* the value of self.first_guess_index after the call
get_first_guess(ran, cached, cands) ==
  IF ran THEN cached ELSE ArgMaxFloat(calculate_scores(cands))

\* guess_counter != self.last_guess_counter
OutOfSync(guess_counter, counter) == guess_counter # counter

\* the correction step: remove the best-scoring candidate (cands not empty)
Correct(cands) == Remove(cands, cands[ArgMaxFloat(calculate_scores(cands)) + 1])

\* the test that leads to green_counter and smart_guess
TrySmart(md, cands, guess_counter, ng) ==
  md = "easy" /\ Len(cands) > 2 /\ guess_counter # ng - 1

\* the normal path: the first best-scoring candidate
BestCandidate(cands) == cands[ArgMaxFloat(calculate_scores(cands)) + 1]

\* a slip at turn 0: the candidate list is not refilled
RefillNothing(dict) == dictionary_backup

\* the candidate list a turn-0 call leaves
Refill(dict) == dict

\* a slip in the constructor and at turn 0: dictionary_backup is not a copy but
\* the Dictionary list itself, so what is removed from it is removed from both
DictionaryAliased(dict, backup) == backup

\* self.dictionary after a call that leaves dictionary_backup as backup: the
\* candidate list is a copy (dictionary.copy()), every remove is applied to it
DictionaryAfterCall(dict, backup) == dict

\* the part of AgentFunction after reduce_guesses: [backup, result]
AfterReduce(p, counter, reduced) ==
  IF OutOfSync(p.guess_counter, counter) /\ reduced = <<>>
    THEN \* np.argmax of an empty list raises ValueError
         [backup |-> reduced,
          result |-> [kind |-> "raise", word |-> NoWord, path |-> "correction"]]
  ELSE
    LET cands == IF OutOfSync(p.guess_counter, counter) THEN Correct(reduced)
                 ELSE reduced
    IN  IF Len(cands) > 0
          THEN IF /\ TrySmart(mode, cands, p.guess_counter, num_guesses)
                  /\ green_counter(p) = word_length - 1
                 THEN IF HasGrey(p)
                        THEN [backup |-> cands,
                              result |-> [kind |-> "word",
                                          word |-> smart_guess(dictionary, cands, p),
                                          path |-> "smart"]]
                        ELSE \* letter_states.index(0) raises ValueError
                             [backup |-> cands,
                              result |-> [kind |-> "raise", word |-> NoWord,
                                          path |-> "smart"]]
                 ELSE [backup |-> cands,
                       result |-> [kind |-> "word", word |-> BestCandidate(cands),
                                   path |-> "normal"]]
          ELSE \* the function ends without a return statement: None
               [backup |-> cands,
                result |-> [kind |-> "none", word |-> NoWord, path |-> "empty"]]

\* AgentFunction(percepts)
AgentFunction(p) ==
  LET counter == last_guess_counter + 1
      first == get_first_guess(has_run, first_guess_index, dictionary_backup)
  IN  /\ percepts' = p
      /\ has_run' = TRUE
      /\ runs' = IF has_run THEN runs ELSE runs + 1
      /\ first_guess_index' = first
      /\ IF p.guess_counter = 0
           THEN /\ last_guess_counter' = 0
                /\ dictionary_backup' = Refill(dictionary)
                /\ result' = IF first < Len(dictionary_backup')
                                THEN [kind |-> "word",
                                      word |-> dictionary_backup'[first + 1],
                                      path |-> "opener"]
                                ELSE \* list index out of range raises IndexError
                                     [kind |-> "raise", word |-> NoWord,
                                      path |-> "opener"]
                /\ call' = [before |-> dictionary_backup,
                            reduced |-> dictionary_backup,
                            counter |-> counter]
                /\ opener' = IF opener = NoWord THEN result'.word ELSE opener
                /\ guesses' = <<result'.word>>
           ELSE LET reduced == reduce_guesses(dictionary_backup, p)
                    out == AfterReduce(p, counter, reduced)
                IN  /\ last_guess_counter' = counter
                    /\ dictionary_backup' = out.backup
                    /\ result' = out.result
                    /\ call' = [before |-> dictionary_backup,
                                reduced |-> reduced,
                                counter |-> counter]
                    /\ opener' = opener
                    /\ guesses' = Append(guesses, out.result.word)
      /\ dictionary' = DictionaryAfterCall(dictionary, dictionary_backup')
      /\ UNCHANGED <<word_length, num_guesses, mode>>

----------------------------------------------------------------------------
(* The external game: it encodes the last guess, computes feedback, accepts or
   rejects a guess, starts games and constructs agents *)

\* the 0-based index of a letter in the alphabet
LetterIndex(c) == (CHOOSE k \in 1..Len(letters) : letters[k] = c) - 1

\* the letter indexes the game hands over for a guessed word
Encode(word) == [i \in 1..Len(word) |-> LetterIndex(word[i])]

\* standard feedback of guess g against hidden word s: correct where the letters
\* match; otherwise present-misplaced while unmatched occurrences of the letter
\* remain in s, counted left to right; otherwise absent
Feedback(g, s) ==
  LET unmatched(c) == Cardinality({k \in 1..Len(s) : s[k] = c /\ g[k] # c})
      earlier(i) == Cardinality({j \in 1..(i - 1) : g[j] = g[i] /\ s[j] # g[j]})
  IN  [i \in 1..Len(g) |->
         IF g[i] = s[i] THEN 1
         ELSE IF earlier(i) < unmatched(g[i]) THEN 0 - 1
         ELSE 0]

\* the percepts of a turn-0 call: a list of -1's for the letters
FirstPercepts(n) ==
  [guess_counter |-> 0,
   letter_indexes |-> [i \in 1..n |-> 0 - 1],
   letter_states |-> [i \in 1..n |-> 0]]

NoPercepts == [guess_counter |-> 0 - 1, letter_indexes |-> <<>>, letter_states |-> <<>>]
NoResult == [kind |-> "init", word |-> NoWord, path |-> "init"]

\* WordleAgent.__init__: the fields of a new agent
\* <<dictionary, dictionary_backup, word_length, num_guesses, mode,
\*   first_guess_index, last_guess_counter>>
NewAgent(d, m) ==
  [dictionary |-> d, dictionary_backup |-> d, word_length |-> Len(d[1]),
   num_guesses |-> NumGuesses, mode |-> m, first_guess_index |-> 0,
   last_guess_counter |-> 0]

Init ==
  /\ \E d \in Dictionaries, m \in Modes :
       LET a == NewAgent(d, m)
       IN  /\ dictionary = a.dictionary
           /\ dictionary_backup = a.dictionary_backup
           /\ word_length = a.word_length
           /\ num_guesses = a.num_guesses
           /\ mode = a.mode
           /\ first_guess_index = a.first_guess_index
           /\ last_guess_counter = a.last_guess_counter
  /\ has_run = FALSE
  /\ percepts = NoPercepts
  /\ result = NoResult
  /\ call = [before |-> <<>>, reduced |-> <<>>, counter |-> 0]
  /\ solution = NoWord
  /\ truthful = FALSE
  /\ rejected = FALSE
  /\ nagents = 1
  /\ runs = 0
  /\ opener = NoWord
  /\ guesses = <<>>

\* the process constructs another agent and plays on with it
Construct ==
  /\ nagents < MaxAgents
  /\ nagents' = nagents + 1
  /\ \E d \in Dictionaries, m \in Modes :
       LET a == NewAgent(d, m)
       IN  /\ dictionary' = a.dictionary
           /\ dictionary_backup' = a.dictionary_backup
           /\ word_length' = a.word_length
           /\ num_guesses' = a.num_guesses
           /\ mode' = a.mode
           /\ first_guess_index' = a.first_guess_index
           /\ last_guess_counter' = a.last_guess_counter
  /\ percepts' = NoPercepts
  /\ result' = NoResult
  /\ call' = [before |-> <<>>, reduced |-> <<>>, counter |-> 0]
  /\ solution' = NoWord
  /\ truthful' = FALSE
  /\ rejected' = FALSE
  /\ opener' = NoWord
  /\ guesses' = <<>>
  /\ UNCHANGED <<has_run, runs>>

\* a game starts: the game picks a hidden word and asks for guess 0
NewGame ==
  /\ \E s \in Range(dictionary) : solution' = s
  /\ truthful' = TRUE
  /\ rejected' = FALSE
  /\ AgentFunction(FirstPercepts(word_length))
  /\ UNCHANGED nagents

\* the game accepts the last guess and asks for the next one with feedback st
Accept ==
  /\ result.kind = "word"
  /\ percepts.guess_counter + 1 <= num_guesses - 1
  /\ last_guess_counter < MaxCalls
  /\ \E st \in [1..word_length -> States] :
       /\ AgentFunction([guess_counter |-> percepts.guess_counter + 1,
                         letter_indexes |-> Encode(result.word),
                         letter_states |-> st])
       /\ truthful' = (truthful /\ result.word # solution
                                /\ st = Feedback(result.word, solution))
  /\ rejected' = FALSE
  /\ UNCHANGED <<solution, nagents>>

\* the game rejects the last guess: it presents the same turn again
Reject ==
  /\ result.kind = "word"
  /\ percepts.guess_counter >= 1
  /\ last_guess_counter < MaxCalls
  /\ AgentFunction(percepts)
  /\ truthful' = (truthful /\ result.word # solution)
  /\ rejected' = TRUE
  /\ UNCHANGED <<solution, nagents>>

Next == Construct \/ NewGame \/ Accept \/ Reject

Spec == Init /\ [][Next]_vars

----------------------------------------------------------------------------
(* The Candidate Reducer alone: reduce_guesses applied once to a candidate
   list drawn from the sub-lists of a dictionary, for a guessed dictionary word
   and any feedback *)

\* the words of d at the indexes in keep, in the order of d, from index i on
RECURSIVE Pick(_, _, _)
Pick(d, keep, i) ==
  IF i > Len(d) THEN <<>>
  ELSE IF i \in keep THEN <<d[i]>> \o Pick(d, keep, i + 1)
  ELSE Pick(d, keep, i + 1)

SubLists(d) == {Pick(d, keep, 1) : keep \in SUBSET (1..Len(d))}

InitReducer ==
  /\ \E d \in Dictionaries, m \in Modes :
       LET a == NewAgent(d, m)
       IN  /\ dictionary = a.dictionary
           /\ dictionary_backup \in SubLists(d)
           /\ word_length = a.word_length
           /\ num_guesses = a.num_guesses
           /\ mode = a.mode
           /\ first_guess_index = a.first_guess_index
           /\ last_guess_counter = a.last_guess_counter
  /\ has_run = FALSE
  /\ percepts = NoPercepts
  /\ result = NoResult
  /\ call = [before |-> <<>>, reduced |-> <<>>, counter |-> 0]
  /\ solution = NoWord
  /\ truthful = FALSE
  /\ rejected = FALSE
  /\ nagents = 1
  /\ runs = 0
  /\ opener = NoWord
  /\ guesses = <<>>

\* reduce_guesses(percepts) on the drawn candidate list
ReduceStep ==
  /\ percepts = NoPercepts
  /\ \E g \in Range(dictionary), st \in [1..word_length -> States] :
       percepts' = [guess_counter |-> 1, letter_indexes |-> Encode(g),
                    letter_states |-> st]
  /\ dictionary_backup' = reduce_guesses(dictionary_backup, percepts')
  /\ call' = [before |-> dictionary_backup, reduced |-> dictionary_backup',
              counter |-> 0]
  /\ UNCHANGED <<agentVars, first_guess_index, last_guess_counter, has_run,
                 result, solution, truthful, rejected, nagents, runs, opener,
                 guesses>>

NextReducer == ReduceStep

SpecReducer == InitReducer /\ [][NextReducer]_vars

----------------------------------------------------------------------------
(* Games with true feedback: an agent whose Dictionary is a duplicate-free list
   of words plays games in which every guess is accepted and answered with the
   standard feedback for the hidden word, until it returns the hidden word; the
   maximum turn count does not end a game *)

\* the non-empty sub-lists of the dictionaries that hold no word twice
DuplicateFree(d) == Cardinality(Range(d)) = Len(d)

GameDictionaries ==
  {l \in UNION {SubLists(d) : d \in Dictionaries} : l # <<>> /\ DuplicateFree(l)}

\* the agent under test; the process may have called another agent before
\* (wrapper.has_run already True)
InitGame ==
  /\ \E d \in GameDictionaries, m \in Modes :
       LET a == NewAgent(d, m)
       IN  /\ dictionary = a.dictionary
           /\ dictionary_backup = a.dictionary_backup
           /\ word_length = a.word_length
           /\ num_guesses = a.num_guesses
           /\ mode = a.mode
           /\ first_guess_index = a.first_guess_index
           /\ last_guess_counter = a.last_guess_counter
  /\ has_run \in BOOLEAN
  /\ percepts = NoPercepts
  /\ result = NoResult
  /\ call = [before |-> <<>>, reduced |-> <<>>, counter |-> 0]
  /\ solution = NoWord
  /\ truthful = FALSE
  /\ rejected = FALSE
  /\ nagents = IF has_run THEN 2 ELSE 1
  /\ runs = 0
  /\ opener = NoWord
  /\ guesses = <<>>

\* the game accepts a guess that is not the hidden word and answers it with the
\* standard feedback
TruthfulTurn ==
  /\ result.kind = "word"
  /\ result.word # solution
  /\ Len(guesses) <= Len(dictionary)
  /\ AgentFunction([guess_counter |-> percepts.guess_counter + 1,
                    letter_indexes |-> Encode(result.word),
                    letter_states |-> Feedback(result.word, solution)])
  /\ UNCHANGED <<solution, truthful, rejected, nagents>>

NextGame == NewGame \/ TruthfulTurn

SpecGame == InitGame /\ [][NextGame]_vars

----------------------------------------------------------------------------
(* Claims *)

\* a call of AgentFunction has been made
Called == percepts.guess_counter >= 0

\* C1 as stated: every call of AgentFunction returns a word; on turn 0 and on the
\* normal path the word is in the Candidate Set at the return, on the
\* stuck-position path it is in the Dictionary
C1_EveryCallReturnsWord ==
  Called =>
    /\ result.kind = "word"
    /\ result.path \in {"opener", "normal"} => In(result.word, dictionary_backup)
    /\ result.path = "smart" => In(result.word, dictionary)

\* C2: in a game whose feedback is always the true feedback for a hidden solution
\* of the Dictionary, the solution is still in the Candidate Set after every
\* turn, also after turns that re-present a rejected guess's turn
C2_SolutionStays ==
  truthful => In(solution, dictionary_backup)

\* C3: on every turn n > 0 the Internal Guess Counter (after its increment)
\* disagrees with the turn index if and only if the game rejected the guess of the
\* previous call; after an accepted guess the correction step does not run and
\* removes no candidate
C3_DisagreeIffRejected ==
  percepts.guess_counter > 0 =>
    /\ OutOfSync(percepts.guess_counter, call.counter) <=> rejected
    /\ ~rejected => dictionary_backup = call.reduced

\* C4: a call with turn index 0, in any prior state, leaves the Candidate Set equal
\* to the full Dictionary in Dictionary order and the Internal Guess Counter at 0,
\* and returns the Opener Word (the Dictionary word at the cached opener index)
C4_TurnZeroResets ==
  percepts.guess_counter = 0 =>
    /\ dictionary_backup = dictionary
    /\ last_guess_counter = 0
    /\ result.kind = "word"
    /\ result.word = dictionary[first_guess_index + 1]

\* C4 witness: a turn-0 call made mid-game, on an empty Candidate Set and a
\* counter that rejections had pushed past the turn index
C4_Witness ==
  /\ percepts.guess_counter = 0
  /\ call.before = <<>>
  /\ call.counter >= 3
  /\ dictionary_backup = dictionary
  /\ first_guess_index # 0

\* C5: the body of get_first_guess executes at most once in the process; every
\* later invocation changes nothing, the cached opener index of an agent never
\* changes after that execution, and every turn-0 call of an agent returns the
\* same word
C5_OpenerComputedOnce ==
  [][ /\ runs' <= 1
      /\ has_run => runs' = runs
      /\ (has_run /\ nagents' = nagents) => first_guess_index' = first_guess_index
      /\ (opener # NoWord /\ nagents' = nagents /\ percepts'.guess_counter = 0)
           => result'.word = opener ]_vars

\* C5 witness: a later game starts mid-game on a reduced candidate list, after the
\* one execution cached an index other than 0
C5_Witness ==
  /\ runs = 1
  /\ first_guess_index # 0
  /\ percepts.guess_counter = 0
  /\ call.counter >= 3
  /\ call.before # <<>>
  /\ Len(call.before) < Len(dictionary)
  /\ result.word = opener

\* C6: the word returned on turn 0 by every agent of the process, also one
\* constructed after another agent has played, is the first word of its
\* Dictionary with the maximal Word Scorer score over the full Dictionary
C6_OpenerIsBest ==
  percepts.guess_counter = 0 =>
    result.word = dictionary[ArgMaxFloat(calculate_scores(dictionary)) + 1]

\* a is b with some elements dropped: same relative order, nothing added
RECURSIVE IsSubSeqFrom(_, _, _, _)
IsSubSeqFrom(a, b, i, j) ==
  IF i > Len(a) THEN TRUE
  ELSE IF j > Len(b) THEN FALSE
  ELSE IF a[i] = b[j] THEN IsSubSeqFrom(a, b, i + 1, j + 1)
  ELSE IsSubSeqFrom(a, b, i, j + 1)

IsSubSeq(a, b) == IsSubSeqFrom(a, b, 1, 1)

\* C7: after every call with turn index n > 0 the Candidate Set is a sub-sequence
\* of the Candidate Set before the call, so its size never increases
C7_ShrinksInOrder ==
  percepts.guess_counter > 0 =>
    /\ IsSubSeq(dictionary_backup, call.before)
    /\ Len(dictionary_backup) <= Len(call.before)

\* C7 witness: a turn on which the reducer and then the correction step removed
\* words of an already reduced list and left some
C7_Witness ==
  /\ percepts.guess_counter > 1
  /\ Len(call.before) < Len(dictionary)
  /\ Len(call.reduced) < Len(call.before)
  /\ Len(dictionary_backup) < Len(call.reduced)
  /\ dictionary_backup # <<>>

\* C10: on a turn n > 0, when the Candidate Set is empty after the reducer (and
\* after the correction step where the counters disagree), the call returns no
\* word, raises nothing, and the Candidate Set stays empty
C10_EmptyEndsQuietly ==
  (percepts.guess_counter > 0 /\ (call.reduced = <<>> \/ dictionary_backup = <<>>)) =>
    /\ result.kind = "none"
    /\ dictionary_backup = <<>>

\* the guessed word of the last percepts, as the reducer decodes it
Guessed == letter_indices_to_word(percepts.letter_indexes, letters)

\* the feedback marks every position correct
AllCorrect == \A i \in 1..Len(percepts.letter_states) : percepts.letter_states[i] = 1

\* the feedback is correct at position 0 and absent at every other position
FirstCorrectRestAbsent ==
  /\ percepts.letter_states[1] = 1
  /\ \A i \in 2..Len(percepts.letter_states) : percepts.letter_states[i] = 0

\* C8: for every word W of the Candidate Set, the reducer run on guess W with
\* feedback that marks every position correct leaves exactly {W}: W stays (every
\* copy of it) and every other word goes
C8_AllCorrectLeavesGuess ==
  (percepts.guess_counter > 0 /\ AllCorrect /\ In(Guessed, call.before)) =>
    /\ Range(dictionary_backup) = {Guessed}
    /\ Count(dictionary_backup, Guessed) = Count(call.before, Guessed)

\* C8 witness: all-correct feedback for a candidate of a list of four or more
\* different words, which is all that is left
C8_Witness ==
  /\ percepts.guess_counter > 0
  /\ AllCorrect
  /\ In(Guessed, call.before)
  /\ Cardinality(Range(call.before)) >= 4
  /\ dictionary_backup = <<Guessed>>

\* C9 as stated: on {CRANE, SLATE, TRAIN}, guess SLATE with feedback correct at
\* position 0 and absent at positions 1 to 4 leaves {SLATE}; in general, for such
\* feedback, the survivors are the candidates that start with the guessed first
\* letter
C9_FirstLetterSurvives ==
  (percepts.guess_counter > 0 /\ FirstCorrectRestAbsent) =>
    /\ Range(dictionary_backup) = {w \in Range(call.before) : w[1] = Guessed[1]}
    /\ (call.before = <<CRANE, SLATE, TRAIN>> /\ Guessed = SLATE)
         => dictionary_backup = <<SLATE>>

\* C9 amended: on {CRANE, SLATE, TRAIN}, guess SLATE with feedback correct at
\* position 0 and absent at positions 1 to 4 removes CRANE, TRAIN and SLATE and
\* leaves the Candidate Set empty; in general, for such feedback, the survivors
\* are the candidates that start with the guessed first letter and that, at every
\* other position i, do not contain the guessed letter of i or, when that letter
\* occurs more than once in the guess, do not have it at position i
C9_FirstLetterAndNoAbsentLetter ==
  (percepts.guess_counter > 0 /\ FirstCorrectRestAbsent) =>
    LET Survives(w) ==
          /\ w[1] = Guessed[1]
          /\ \A i \in 2..Len(w) :
               \/ ~In(Guessed[i], w)
               \/ Count(Guessed, Guessed[i]) > 1 /\ w[i] # Guessed[i]
    IN  /\ dictionary_backup = SelectSeq(call.before, Survives)
        /\ (call.before = <<CRANE, SLATE, TRAIN>> /\ Guessed = SLATE)
             => dictionary_backup = <<>>

\* C9 witness: the example of the claim, after the reducer has run
C9_Witness ==
  /\ percepts.guess_counter > 0
  /\ FirstCorrectRestAbsent
  /\ call.before = <<CRANE, SLATE, TRAIN>>
  /\ Guessed = SLATE
  /\ dictionary_backup = <<>>

\* the call ended in the stuck-position heuristic and the heuristic returned a word
HeuristicProducedGuess == result.kind = "word" /\ result.path = "smart"

\* C11: on a turn n > 0 with a non-empty Candidate Set, the stuck-position heuristic
\* produces the guess if and only if the mode is 'easy', more than two candidates
\* remain after reduction and correction, the turn index is not num_guesses - 1 and
\* exactly word_length - 1 feedback states are correct; in strict mode the heuristic
\* is never invoked
C11_HeuristicIffStuck ==
  /\ (percepts.guess_counter > 0 /\ dictionary_backup # <<>>) =>
       (HeuristicProducedGuess <=>
          /\ mode = "easy"
          /\ Len(dictionary_backup) > 2
          /\ percepts.guess_counter # num_guesses - 1
          /\ green_counter(percepts) = word_length - 1)
  /\ mode = "hard" => result.path # "smart"

\* the one position whose feedback state is not correct (when there is one)
UnresolvedPosition(p) ==
  CHOOSE i \in 1..Len(p.letter_states) : p.letter_states[i] # 1

\* C14: whenever the stuck-position heuristic is invoked it completes, and the
\* unresolved position it uses is the position whose feedback state is not correct,
\* whether that state is absent or present-misplaced
C14_HeuristicCompletes ==
  result.path = "smart" =>
    /\ result.kind = "word"
    /\ HasGrey(percepts)
    /\ grey_pos(percepts) = UnresolvedPosition(percepts)
    /\ result.word = smart_guess(dictionary, dictionary_backup, percepts)

\* C12: in the stuck-position heuristic the score of a Dictionary word is the number
\* of its letter occurrences that belong to the letters found at the unresolved
\* position across the candidates, multiplied by 0.1 whenever the word contains any
\* letter more than once; the heuristic returns the first Dictionary word with the
\* maximum such score (scores are compared times 10)
C12_PenaltyPerWord ==
  HeuristicProducedGuess =>
    LET possible == possible_letters(dictionary_backup, percepts)
        Occurrences(w) == Cardinality({k \in 1..Len(w) : In(w[k], possible)})
        scores == [i \in 1..Len(dictionary) |->
                     IF HasDouble(dictionary[i])
                       THEN Occurrences(dictionary[i])
                       ELSE 10 * Occurrences(dictionary[i])]
    IN  result.word = dictionary[ArgMax(scores) + 1]

\* the score of C13 as a real number, times 10 * N^2 for N candidates: the sum over
\* the positions i of p_i * (1 - p_i), with p_i = freq_i / N, times 0.9 for a word
\* that contains some letter more than once
RECURSIVE RealSum(_, _, _)
RealSum(cands, word, i) ==
  IF i = 0 THEN 0
  ELSE RealSum(cands, word, i - 1)
       + Freq(cands, word[i], i) * (Len(cands) - Freq(cands, word[i], i))

RealScore(cands, word) ==
  IF HasDouble(word) THEN 9 * RealSum(cands, word, Len(word))
  ELSE 10 * RealSum(cands, word, Len(word))

\* C13: on the normal path the returned word is the first word in Candidate Set order
\* whose score is maximal, the score being the sum over positions of p_i * (1 - p_i),
\* multiplied by 0.9 exactly when the word contains some letter more than once
C13_NormalPathFirstBest ==
  (result.kind = "word" /\ result.path = "normal") =>
    result.word =
      dictionary_backup[ArgMax([i \in 1..Len(dictionary_backup) |->
                                  RealScore(dictionary_backup, dictionary_backup[i])]) + 1]

\* the guess the previous call of this game returned (after a second call)
PreviousGuess == guesses[Len(guesses) - 1]

\* C15: in strict mode, when the game rejected the guess the previous call (a call
\* with turn index >= 1) returned and presents the same turn and feedback again, the
\* correction step removes exactly one word from the Candidate Set, that word is the
\* rejected guess, and the word the current call returns differs from it
C15_RejectedGuessRemoved ==
  (mode = "hard" /\ rejected) =>
    /\ Len(dictionary_backup) = Len(call.reduced) - 1
    /\ In(PreviousGuess, call.reduced)
    /\ dictionary_backup = Remove(call.reduced, PreviousGuess)
    /\ result.word # PreviousGuess

\* the pure filter of C16: keep word w for guess G and feedback st
Keeps(w, G, st) ==
  \A i \in 1..Len(G) :
    /\ st[i] = 1 => w[i] = G[i]
    /\ st[i] = 0 - 1 => (In(G[i], w) /\ w[i] # G[i])
    /\ st[i] = 0 => (~In(G[i], w) \/ (Count(G, G[i]) > 1 /\ w[i] # G[i]))

\* C16: for every candidate list (also one holding duplicate words), guess and
\* feedback, the in-place reduce_guesses yields the same list, in the same order, as
\* the pure filter that keeps the words w with Keeps(w, G, feedback)
C16_InPlaceEqualsFilter ==
  percepts.guess_counter > 0 =>
    LET Kept(w) == Keeps(w, Guessed, percepts.letter_states)
    IN  call.reduced = SelectSeq(call.before, Kept)

\* C16 witness: a list that holds a word twice was reduced; both copies stayed and
\* at least two other words were removed
C16_Witness ==
  /\ percepts.guess_counter > 0
  /\ \E i \in 1..Len(call.reduced) : Count(call.reduced, call.reduced[i]) = 2
  /\ Len(call.reduced) + 2 <= Len(call.before)
  /\ call.reduced = reduce_guesses(call.before, percepts)

\* C17: for every guess G and every hidden word S in the Candidate Set, running the
\* Candidate Reducer once with the standard Wordle feedback of G against S does not
\* remove S (no copy of it), also when G contains repeated letters
C17_TrueFeedbackKeepsSolution ==
  percepts.guess_counter > 0 =>
    \A S \in Range(call.before) :
      percepts.letter_states = Feedback(Guessed, S) =>
        Count(call.reduced, S) = Count(call.before, S)

\* C17 witness: the guess holds a letter twice, the hidden word S holds that letter
\* and is not the guess, the feedback is the standard feedback for S, and the
\* reducer removed other words and kept S
C17_Witness ==
  /\ percepts.guess_counter > 0
  /\ HasDouble(Guessed)
  /\ \E S \in Range(call.before) :
       /\ S # Guessed
       /\ percepts.letter_states = Feedback(Guessed, S)
       /\ \E i \in 1..Len(Guessed) :
            /\ Count(Guessed, Guessed[i]) > 1
            /\ percepts.letter_states[i] = 0
            /\ In(Guessed[i], S)
       /\ In(S, call.reduced)
  /\ Len(call.reduced) < Len(call.before)

\* C19: for every guess G and every feedback with at least one position not marked
\* correct, G is not in the Candidate Set after the Candidate Reducer has run; hence
\* when G was a candidate the Candidate Set is strictly smaller
C19_GuessLeavesCandidates ==
  (percepts.guess_counter > 0 /\ ~AllCorrect) =>
    /\ ~In(Guessed, call.reduced)
    /\ In(Guessed, call.before) => Len(call.reduced) < Len(call.before)

\* C19 witness: the guess was a candidate, held twice, the feedback has a position
\* that is not correct, and the reducer removed the guess and left other candidates
C19_Witness ==
  /\ percepts.guess_counter > 0
  /\ ~AllCorrect
  /\ Count(call.before, Guessed) = 2
  /\ ~In(Guessed, call.reduced)
  /\ call.reduced # <<>>

\* C18: no sequence of AgentFunction calls changes the Dictionary: across every
\* call (turn 0, accepted turn, rejected turn, of any game) the Dictionary keeps its
\* words and their order, and what was removed was removed from the Candidate Set,
\* which stays a sub-list of the Dictionary
C18_DictionaryNeverChanges ==
  [][nagents' = nagents =>
       /\ dictionary' = dictionary
       /\ IsSubSeq(dictionary_backup', dictionary')]_vars

\* C18 witness: after accepted turns and a rejected turn the Candidate Set has lost
\* at least two words and the Dictionary is still a list the constructor was given
C18_Witness ==
  /\ rejected
  /\ percepts.guess_counter >= 2
  /\ call.counter > percepts.guess_counter
  /\ dictionary_backup # <<>>
  /\ Len(dictionary_backup) + 2 <= Len(dictionary)
  /\ dictionary \in Dictionaries

\* C20: in strict mode, for a duplicate-free Dictionary that holds the hidden word S,
\* with the standard feedback for S on every turn and no guess rejected, the agent
\* returns S: every call returns a word, no word is guessed twice, S stays a
\* candidate, and S is returned at the latest by the call number |Dictionary| of
\* the game
C20_ReturnsSolution ==
  (mode = "hard" /\ DuplicateFree(dictionary) /\ truthful /\ ~rejected
     /\ percepts.guess_counter >= 0) =>
    /\ result.kind = "word"
    /\ \A i, j \in 1..Len(guesses) : guesses[i] = guesses[j] => i = j
    /\ In(solution, dictionary_backup)
    /\ Len(guesses) <= Len(dictionary)
    /\ Len(guesses) = Len(dictionary) => result.word = solution

\* C20 witness: a strict-mode game over a Dictionary of at least four words in which
\* the hidden word was returned by the last possible call, number |Dictionary|
C20_Witness ==
  /\ mode = "hard"
  /\ truthful
  /\ Len(dictionary) >= 4
  /\ Len(guesses) = Len(dictionary)
  /\ result.word = solution

====
